---- MODULE Spec2Model ----
(***************************************************************************)
(* Playback coordination of the Mariela site: the standalone TrackPlayer   *)
(* units with their 'trackplayer:play' window event, and the playlist      *)
(* Player with its GlobalTransport bar.                                    *)
(*                                                                         *)
(* The <audio> element is the environment.  It is modelled after the HTML  *)
(* media element: play() clears the paused flag and queues a 'play' event, *)
(* pause() sets it and queues a 'pause' event, load() pauses without an    *)
(* event, rewinds, forgets the duration and drops the queued events, the   *)
(* currentTime setter clamps to [0, duration], and reaching the end sets   *)
(* paused and fires 'pause' and 'ended' in one task.                       *)
(*                                                                         *)
(* Times are whole ticks.  Ratios are exact fractions <<n, d>>, d > 0, in  *)
(* lowest terms.                                                           *)
(***************************************************************************)
EXTENDS Integers, Sequences, FiniteSets, TLC

VARIABLES
  props,      \* TrackPlayer props of each standalone unit: url and optional id
  tp,         \* each standalone unit: its audio element and its React state
  album,      \* Player: album.tracks, the playlist
  pl,         \* Player: its audio element and its React state
  gt,         \* GlobalTransport: isScrubbing and the duration its drag closed over
  drag,       \* whose window mousemove/mouseup listeners are installed
  clickDue,   \* the 'click' the browser dispatches after a release over a bar
  seekCount,  \* seeks issued to a pipeline since the last press
  last        \* the handler that ran last, with what it was given

vars == <<props, tp, album, pl, gt, drag, clickDue, seekCount, last>>
unitVars == <<props, tp>>
playerVars == <<album, pl, gt>>

\* ------------------------------------------------------------ bounds
\* Width of a progress bar in pixels: pointer ratios are k / BarWidth.
BarWidth == 2
\* Most media events queued on one audio element and not yet delivered.
MaxEvq == 2
\* Longest playlist.
MaxTracks == 2
\* Seeks counted in one gesture before a further move is left out.
MaxSeeks == 2
\* Playback starts one unit requests while its requests are being counted.
MaxPlays == 2

\* ------------------------------------------------------------ the page
Units == {"A", "B"}
Urls == {"song1", "song2"}
NoId == "none"
None == "none"

\* Bounding box of a progress bar (getBoundingClientRect).
Rect == [left |-> 1, width |-> BarWidth]
\* Pointer x coordinates: one pixel beyond the bar on either side.
ClientXs == (Rect.left - 1) .. (Rect.left + Rect.width + 1)
BarXs == Rect.left .. (Rect.left + Rect.width)
\* Real duration, in ticks, of the media behind a standalone unit.
UnitDur == 2 * BarWidth

\* The tracks an album can list: url, real duration of the media in ticks,
\* and the optional nominal duration of the album data (0 stands for null).
TrackIds == {"T0", "T1"}
TrackDur(t) == IF t = "T0" THEN BarWidth ELSE 2 * BarWidth
Nominal(t) == IF t = "T0" THEN TrackDur(t) ELSE 0
NoTrack == "none"
Playlists == UNION {[1 .. n -> TrackIds] : n \in 0 .. MaxTracks}

\* ------------------------------------------------------------ fractions
Abs(n) == IF n < 0 THEN -n ELSE n

RECURSIVE GCD(_, _)
GCD(a, b) == IF b = 0 THEN a ELSE GCD(b, a % b)

Frac(n, d) == LET g == GCD(Abs(n), d) IN <<n \div g, d \div g>>
Zero == <<0, 1>>
One == <<1, 1>>
FLe(a, b) == a[1] * b[2] <= b[1] * a[2]
FMin(a, b) == IF FLe(a, b) THEN a ELSE b
FMax(a, b) == IF FLe(a, b) THEN b ELSE a
\* ratio * duration, in ticks
Times(r, d) == (r[1] * d) \div r[2]

\* Math.min(1, Math.max(0, ratio))
Clamp01(r) == FMin(One, FMax(Zero, r))

\* The currentTime setter of the media element: the seek is clamped to the
\* seekable range [0, duration].
ClampTime(t, d) == IF t < 0 THEN 0 ELSE IF t > d THEN d ELSE t

\* ------------------------------------------------------------ TrackPlayer
playerId(u) == IF props[u].id # NoId THEN props[u].id ELSE props[u].url

\* audio.duration: NaN (falsy, here 0) until the metadata is loaded.
audioDuration(t) == IF t.meta THEN UnitDur ELSE 0

currentProgress(t) == IF t.isScrubbing THEN t.scrubProgress ELSE t.progress

displayTime(t) ==
  IF t.isScrubbing /\ t.duration # 0
    THEN Times(t.scrubProgress, t.duration)
    ELSE t.currentTime

\* HTMLMediaElement.play()
audioPlay(t) ==
  IF t.paused
    THEN [t EXCEPT !.paused = FALSE,
                   !.pos = IF t.meta /\ t.pos = UnitDur THEN 0 ELSE @,
                   !.evq = Append(@, "play")]
    ELSE t

\* HTMLMediaElement.pause()
audioPause(t) ==
  IF t.paused THEN t
  ELSE [t EXCEPT !.paused = TRUE, !.evq = Append(@, "pause")]

\* Variant: the id of the event is not compared with the unit's own.
handleExternalPlayAnyId(t, myId, evId) ==
  IF ~t.paused THEN audioPause(t) ELSE t

handleExternalPlay(t, myId, evId) ==
  IF evId = myId THEN t
  ELSE IF ~t.paused THEN audioPause(t) ELSE t

\* The 'trackplayer:play' listeners of one unit run in turn; each compares
\* the id of the event with the playerId it was created with.
RECURSIVE runListeners(_, _, _)
runListeners(t, subs, evId) ==
  IF subs = <<>> THEN t
  ELSE runListeners(handleExternalPlay(t, Head(subs), evId), Tail(subs), evId)

\* window.dispatchEvent(new CustomEvent("trackplayer:play", {detail: {id}})):
\* every subscribed unit handles it before dispatchEvent returns.
broadcastPlay(f, id) ==
  [v \in Units |-> runListeners(f[v], f[v].subs, id)]

\* Variant: the ratio is not clamped.
getRatioFromClientXUnclamped(x) == Frac(x - Rect.left, Rect.width)

getRatioFromClientX(x) ==
  Clamp01(Frac(x - Rect.left, Rect.width))

\* Variant: the seek does not ask whether the duration is known.
seekToRatioUnguarded(t, ratio) ==
  LET newTime == Times(ratio, audioDuration(t))
  IN [t EXCEPT !.pos = ClampTime(newTime, audioDuration(t)),
               !.currentTime = newTime,
               !.progress = ratio]

\* Variant: the seek does not update the displayed progress.
seekToRatioKeepsProgress(t, ratio) ==
  IF audioDuration(t) = 0 THEN t
  ELSE LET newTime == Times(ratio, audioDuration(t))
       IN [t EXCEPT !.pos = ClampTime(newTime, audioDuration(t)),
                    !.currentTime = newTime]

seekToRatio(t, ratio) ==
  IF audioDuration(t) = 0 THEN t
  ELSE LET newTime == Times(ratio, audioDuration(t))
       IN [t EXCEPT !.pos = ClampTime(newTime, audioDuration(t)),
                    !.currentTime = newTime,
                    !.progress = ratio]

Seeks(t) == IF audioDuration(t) = 0 THEN 0 ELSE 1

handlePlay(t) == [t EXCEPT !.isPlaying = TRUE]
handlePause(t) == [t EXCEPT !.isPlaying = FALSE]

handleTimeUpdate(t) ==
  IF audioDuration(t) = 0 THEN t
  ELSE [t EXCEPT !.currentTime = t.pos,
                 !.progress = IF t.isScrubbing THEN @
                              ELSE Frac(t.pos, audioDuration(t))]

handleEnded(t) ==
  [t EXCEPT !.isPlaying = FALSE, !.progress = Zero,
            !.scrubProgress = Zero, !.currentTime = 0]

markReady(t) ==
  [t EXCEPT !.isReady = TRUE,
            !.duration = IF audioDuration(t) # 0 THEN audioDuration(t) ELSE @]

QueuesHaveRoom == \A v \in Units : Len(tp[v].evq) < MaxEvq

\* No click is waiting to be dispatched after a release.
NoClick == [u |-> None, x |-> 0]

Quiet == clickDue = NoClick

InitUnit ==
  [paused |-> TRUE, pos |-> 0, meta |-> FALSE, evq |-> <<>>,
   isReady |-> FALSE, isPlaying |-> FALSE, progress |-> Zero,
   isScrubbing |-> FALSE, scrubProgress |-> Zero,
   duration |-> 0, currentTime |-> 0,
   counting |-> FALSE, plays |-> 0, pubs |-> 0,
   mounted |-> FALSE, subs |-> <<>>, touch |-> FALSE]

\* Variant: the effect of [playerId] returns no cleanup.
unsubscribeNothing(t) == t

\* The cleanup of the effect of [playerId] removes the listener it added.
unsubscribe(t) == [t EXCEPT !.subs = IF @ = <<>> THEN @ ELSE Tail(@)]

\* The effect of [playerId] adds a listener that closes over the playerId.
subscribe(t, id) == [t EXCEPT !.subs = Append(@, id)]

\* A unit after its first commit.
mountUnit(t, id) == subscribe([t EXCEPT !.mounted = TRUE], id)

\* The audio element gets another src: it loads anew, so it pauses without a
\* 'pause' event, rewinds, forgets the duration and drops its queued events.
unitLoad(t) ==
  [t EXCEPT !.paused = TRUE, !.pos = 0, !.meta = FALSE, !.evq = <<>>]

\* Bookkeeping: where the requests of a unit are being counted, plays is the
\* number of audio.play() calls that asked its pipeline to start, and pubs
\* the number of 'trackplayer:play' events it has dispatched.
counted(t, plays, pubs) ==
  IF t.counting THEN [t EXCEPT !.plays = @ + plays, !.pubs = @ + pubs] ELSE t

\* The button is disabled until isReady.
TogglePlay(u) ==
  /\ Quiet
  /\ tp[u].isReady
  /\ QueuesHaveRoom
  /\ LET t == tp[u] IN
       IF t.paused
         THEN LET f == broadcastPlay(tp, playerId(u)) IN
              /\ tp' = [f EXCEPT ![u] = counted(audioPlay(f[u]), 1, 1)]
              /\ last' = [op |-> "togglePlay", u |-> u, started |-> TRUE,
                          paused |-> {v \in Units : ~tp[v].paused /\ f[v].paused}]
         ELSE /\ tp' = [tp EXCEPT ![u] = audioPause(t)]
              /\ last' = [op |-> "togglePlay", u |-> u, started |-> FALSE,
                          paused |-> {}]
  /\ UNCHANGED <<props, playerVars, drag, clickDue, seekCount>>

\* The next queued media event of u is dispatched to its listeners, in the
\* order they were added: handlePlay then broadcastPlay for 'play'.
DeliverEvent(u) ==
  /\ Quiet
  /\ tp[u].evq # <<>>
  /\ LET ev == Head(tp[u].evq)
         t0 == [tp[u] EXCEPT !.evq = Tail(@)]
         f0 == [tp EXCEPT ![u] = t0]
     IN IF ev = "play"
          THEN /\ \A v \in Units \ {u} : Len(tp[v].evq) < MaxEvq
               /\ LET f == broadcastPlay([f0 EXCEPT ![u] = handlePlay(t0)],
                                         playerId(u)) IN
                  /\ tp' = [f EXCEPT ![u] = counted(@, 0, 1)]
                  /\ last' = [op |-> "evPlay", u |-> u, prePaused |-> tp[u].paused,
                              paused |-> {v \in Units : ~tp[v].paused /\ f[v].paused}]
          ELSE /\ tp' = [f0 EXCEPT ![u] = handlePause(t0)]
               /\ last' = [op |-> "evPause", u |-> u]
  /\ UNCHANGED <<props, playerVars, drag, clickDue, seekCount>>

\* The pipeline has the metadata: audio.duration is known, and
\* 'loadedmetadata' runs markReady.
LoadedMetadata(u) ==
  /\ Quiet
  /\ tp[u].mounted
  /\ ~tp[u].meta
  /\ tp' = [tp EXCEPT ![u] = markReady([@ EXCEPT !.meta = TRUE])]
  /\ last' = [op |-> "loadedmetadata", u |-> u]
  /\ UNCHANGED <<props, playerVars, drag, clickDue, seekCount>>

Audible(t) == ~t.paused /\ t.meta

\* 'timeupdate': the position has advanced by adv ticks since the last one.
TimeUpdate(u, adv) ==
  /\ Quiet
  /\ tp[u].meta
  /\ adv = 1 => Audible(tp[u]) /\ tp[u].pos < UnitDur
  /\ tp' = [tp EXCEPT ![u] = handleTimeUpdate([@ EXCEPT !.pos = @ + adv])]
  /\ last' = [op |-> "timeupdate", u |-> u, adv |-> adv,
              shown |-> currentProgress(tp[u]), scrubbing |-> tp[u].isScrubbing]
  /\ UNCHANGED <<props, playerVars, drag, clickDue, seekCount>>

\* End of the media: one task fires 'timeupdate', sets paused and fires
\* 'pause', then fires 'ended'.
Ended(u) ==
  /\ Quiet
  /\ Audible(tp[u])
  /\ tp[u].pos = UnitDur
  /\ tp[u].evq = <<>>
  /\ tp' = [tp EXCEPT ![u] =
              handleEnded(handlePause([handleTimeUpdate(@) EXCEPT !.paused = TRUE]))]
  /\ last' = [op |-> "ended", u |-> u]
  /\ UNCHANGED <<props, playerVars, drag, clickDue, seekCount>>

handleMouseDown(t, x) ==
  [t EXCEPT !.isScrubbing = TRUE, !.scrubProgress = getRatioFromClientX(x)]

handleMouseMove(t, x) ==
  [t EXCEPT !.scrubProgress = getRatioFromClientX(x)]

handleMouseUp(t, x) ==
  seekToRatio([t EXCEPT !.isScrubbing = FALSE], getRatioFromClientX(x))

handleProgressClick(t, x) == seekToRatio(t, getRatioFromClientX(x))

\* Press on the bar of u: the window 'mousemove' and 'mouseup' listeners of
\* this press are installed.
MouseDown(u, x) ==
  /\ Quiet
  /\ tp[u].mounted
  /\ drag = None
  /\ tp' = [tp EXCEPT ![u] = handleMouseDown(@, x)]
  /\ drag' = u
  /\ seekCount' = 0
  /\ last' = [op |-> "mousedown", u |-> u, ratio |-> Frac(x - Rect.left, Rect.width),
              prePos |-> tp[u].pos]
  /\ UNCHANGED <<props, playerVars, clickDue>>

MouseMove(u, x) ==
  /\ Quiet
  /\ drag = u
  /\ tp' = [tp EXCEPT ![u] = handleMouseMove(@, x)]
  /\ last' = [op |-> "mousemove", u |-> u, ratio |-> Frac(x - Rect.left, Rect.width),
              prePos |-> tp[u].pos]
  /\ UNCHANGED <<props, playerVars, drag, clickDue, seekCount>>

\* Release.  When the pointer is still over the bar the browser dispatches
\* 'click' to the bar right after 'mouseup'.
MouseUp(u, x, onBar) ==
  /\ Quiet
  /\ drag = u
  /\ onBar => x \in BarXs
  /\ tp' = [tp EXCEPT ![u] = handleMouseUp(@, x)]
  /\ drag' = None
  /\ clickDue' = IF onBar THEN [u |-> u, x |-> x] ELSE NoClick
  /\ seekCount' = seekCount + Seeks(tp[u])
  /\ last' = [op |-> "mouseup", u |-> u, ratio |-> Frac(x - Rect.left, Rect.width),
              seeked |-> Seeks(tp[u]) = 1,
              pre |-> IF Seeks(tp[u]) = 0 THEN tp[u] ELSE InitUnit]
  /\ UNCHANGED <<props, playerVars>>

Click(u) ==
  /\ clickDue # NoClick
  /\ clickDue.u = u
  /\ tp' = [tp EXCEPT ![u] = handleProgressClick(@, clickDue.x)]
  /\ seekCount' = seekCount + Seeks(tp[u])
  /\ last' = [op |-> "click", u |-> u,
              ratio |-> Frac(clickDue.x - Rect.left, Rect.width),
              seeked |-> Seeks(tp[u]) = 1,
              pre |-> IF Seeks(tp[u]) = 0 THEN tp[u] ELSE InitUnit]
  /\ clickDue' = NoClick
  /\ UNCHANGED <<props, playerVars, drag>>

\* The touch handlers get the first entry of event.touches, or of
\* event.changedTouches at the end; hasTouch tells whether there is one.
handleTouchStart(t, x, hasTouch) ==
  IF ~hasTouch THEN t
  ELSE [t EXCEPT !.isScrubbing = TRUE, !.scrubProgress = getRatioFromClientX(x)]

handleTouchMove(t, x, hasTouch) ==
  IF ~hasTouch THEN t
  ELSE [t EXCEPT !.scrubProgress = getRatioFromClientX(x)]

handleTouchEnd(t, x, hasTouch) ==
  IF ~hasTouch THEN [t EXCEPT !.isScrubbing = FALSE]
  ELSE seekToRatio([t EXCEPT !.isScrubbing = FALSE], getRatioFromClientX(x))

\* A finger is put on the bar of u: touch is the touch sequence that targets
\* the bar from then on.
TouchStart(u, x) ==
  /\ Quiet
  /\ tp[u].mounted
  /\ ~tp[u].touch
  /\ tp' = [tp EXCEPT ![u] = [handleTouchStart(@, x, TRUE) EXCEPT !.touch = TRUE]]
  /\ last' = [op |-> "touchstart", u |-> u]
  /\ UNCHANGED <<props, playerVars, drag, clickDue, seekCount>>

\* 'touchmove' on the bar, with or without an entry in event.touches.
TouchMove(u, x, hasTouch) ==
  /\ Quiet
  /\ tp[u].touch
  /\ tp' = [tp EXCEPT ![u] = handleTouchMove(@, x, hasTouch)]
  /\ last' = [op |-> "touchmove", u |-> u, hasTouch |-> hasTouch,
              scrubbing |-> tp[u].isScrubbing, shown |-> tp[u].scrubProgress]
  /\ UNCHANGED <<props, playerVars, drag, clickDue, seekCount>>

\* 'touchend' on the bar, with or without an entry in event.changedTouches.
TouchEnd(u, x, hasTouch) ==
  /\ Quiet
  /\ tp[u].touch
  /\ tp' = [tp EXCEPT ![u] = [handleTouchEnd(@, x, hasTouch) EXCEPT !.touch = FALSE]]
  /\ last' = [op |-> "touchend", u |-> u, hasTouch |-> hasTouch]
  /\ UNCHANGED <<props, playerVars, drag, clickDue, seekCount>>

\* Listeners on window whose component is gone.
Orphan == "orphan"

\* The unit is removed from the page.  The cleanups of its effects remove
\* the listeners of the audio element and the 'trackplayer:play' listener;
\* the element leaves the document and stops, and the React state is gone.
\* Nothing removes the window listeners of a press that is still held.
Unmount(u) ==
  /\ Quiet
  /\ tp[u].mounted
  /\ tp' = [tp EXCEPT ![u] = [InitUnit EXCEPT !.subs = unsubscribe(tp[u]).subs]]
  /\ drag' = IF drag = u THEN Orphan ELSE drag
  /\ last' = [op |-> "unmount", u |-> u, dragging |-> drag = u]
  /\ UNCHANGED <<props, playerVars, clickDue, seekCount>>

\* The unit is rendered again, as a new instance.
Mount(u) ==
  /\ Quiet
  /\ ~tp[u].mounted
  /\ tp' = [tp EXCEPT ![u] = mountUnit([InitUnit EXCEPT !.subs = tp[u].subs],
                                       playerId(u))]
  /\ last' = [op |-> "mount", u |-> u]
  /\ UNCHANGED <<props, playerVars, drag, clickDue, seekCount>>

\* The parent passes another url to a mounted unit: the audio element loads
\* the new source, and because playerId has changed the effect of
\* [playerId] is cleaned up and run again.  The React state stays.
Rebind(u, url) ==
  /\ Quiet
  /\ tp[u].mounted
  /\ url # props[u].url
  /\ props' = [props EXCEPT ![u].url = url]
  /\ tp' = [tp EXCEPT ![u] =
              subscribe(unsubscribe(unitLoad(@)),
                        IF props[u].id # NoId THEN props[u].id ELSE url)]
  /\ last' = [op |-> "rebind", u |-> u]
  /\ UNCHANGED <<playerVars, drag, clickDue, seekCount>>

\* The button is released after the unit that was being dragged has been
\* removed: handleMouseUp of the removed instance runs.  Its refs are null,
\* so getRatioFromClientX gives 0 and seekToRatio returns, its state setters
\* do nothing, and it removes the two window listeners.
StrayMouseUp ==
  /\ Quiet
  /\ drag = Orphan
  /\ drag' = None
  /\ last' = [op |-> "strayMouseup"]
  /\ UNCHANGED <<unitVars, playerVars, clickDue, seekCount>>

\* ------------------------------------------------------------ Player
totalTracks == Len(album)

\* audio.duration of the Player's element
playerAudioDuration(p) == IF p.meta THEN TrackDur(p.src) ELSE 0

\* NaN as an index: it stands outside every playlist, and the only thing
\* computed from it is tracks[NaN].
NaN == 0 - 1

\* The remainder operator of JavaScript: the sign of the dividend, and NaN
\* for a zero divisor.
JsRem(a, n) ==
  IF n = 0 THEN NaN
  ELSE IF a >= 0 THEN a % n ELSE 0 - ((0 - a) % n)

\* audio.src = url; audio.load(): the element pauses without a 'pause'
\* event, rewinds, forgets the duration and the error, and drops its queued
\* events.  The pending play promise is rejected, unless the task that would
\* resolve it is already queued: then load() resolves it at once.
audioLoad(p, url) ==
  [p EXCEPT !.src = url, !.paused = TRUE, !.pos = 0, !.meta = FALSE,
            !.pend = FALSE, !.res = FALSE, !.err = FALSE, !.evq = <<>>]

\* The callback of .then(() => setIsPlaying(true)) for a promise that a call
\* made in the handler has resolved: it runs when the handler has returned,
\* so its write is the last one.  p is the Player before the handler, q after.
thenResolved(p, q) == IF p.res THEN [q EXCEPT !.isPlaying = TRUE] ELSE q

\* audio.play() of the Player: the promise stays pending until the pipeline
\* has started.  On an element whose source has failed the promise is
\* rejected at once and nothing else happens.
playerAudioPlay(p) ==
  IF p.err THEN p
  ELSE IF p.paused
    THEN [p EXCEPT !.paused = FALSE, !.pend = TRUE,
                   !.pos = IF p.meta /\ p.pos = TrackDur(p.src) THEN 0 ELSE @,
                   !.evq = Append(@, "play")]
    ELSE [p EXCEPT !.pend = TRUE]

\* audio.pause() of the Player: the pending play promise is rejected.  A
\* promise whose resolving task is already queued is resolved by that task,
\* which runs before the 'pause' event queued here.
playerAudioPause(p) ==
  IF p.paused THEN p
  ELSE thenResolved(p, [p EXCEPT !.paused = TRUE, !.pend = FALSE, !.res = FALSE,
                                 !.evq = Append(@, "pause")])

\* Variant: the index is stored before the track is looked up.
loadTrackIndexFirst(p, tracks, index, autoplay) ==
  IF index \notin 0 .. (Len(tracks) - 1) THEN [p EXCEPT !.currentIndex = index]
  ELSE LET track == tracks[index + 1]
           p1 == [audioLoad(p, track) EXCEPT !.currentIndex = index,
                                             !.currentTime = 0,
                                             !.duration = Nominal(track)]
       IN thenResolved(p, IF autoplay THEN playerAudioPlay(p1)
                          ELSE [p1 EXCEPT !.isPlaying = FALSE])

\* tracks[index] is undefined outside 0 .. length - 1
loadTrack(p, tracks, index, autoplay) ==
  IF index \notin 0 .. (Len(tracks) - 1) THEN p
  ELSE LET track == tracks[index + 1]
           p1 == [audioLoad(p, track) EXCEPT !.currentIndex = index,
                                             !.currentTime = 0,
                                             !.duration = Nominal(track)]
       IN thenResolved(p, IF autoplay THEN playerAudioPlay(p1)
                          ELSE [p1 EXCEPT !.isPlaying = FALSE])

\* Variant: the length is not added before the remainder is taken.
prevIndexNoWrap(i, n) == JsRem(i - 1, n)

nextIndex(i, n) == JsRem(i + 1, n)
prevIndex(i, n) == JsRem(i - 1 + n, n)

\* With no track the index is NaN and tracks[NaN] is undefined: loadTrack
\* returns at once.
playNext(p, tracks) ==
  loadTrack(p, tracks, nextIndex(p.currentIndex, Len(tracks)), TRUE)

playPrev(p, tracks) ==
  loadTrack(p, tracks, prevIndex(p.currentIndex, Len(tracks)), TRUE)

playerTogglePlay(p) ==
  IF p.paused THEN playerAudioPlay(p) ELSE playerAudioPause(p)

playerSeekToRatio(p, ratio) ==
  IF playerAudioDuration(p) = 0 THEN p
  ELSE LET newTime == Times(ratio, playerAudioDuration(p))
       IN [p EXCEPT !.pos = ClampTime(newTime, playerAudioDuration(p)),
                    !.currentTime = newTime]

playerSeeks(p) == IF playerAudioDuration(p) = 0 THEN 0 ELSE 1

handleLoaded(p) ==
  [p EXCEPT !.duration = IF playerAudioDuration(p) # 0
                           THEN playerAudioDuration(p) ELSE @]

progressRatio(p) ==
  IF p.duration > 0 THEN Clamp01(Frac(p.currentTime, p.duration)) ELSE Zero

\* Player.isScrubbing is never set: the bar its handleMouseDown belongs to
\* is not rendered.
playerHandleTimeUpdate(p) == [p EXCEPT !.currentTime = p.pos]

playerHandleEnded(p) == playNext([p EXCEPT !.isPlaying = FALSE], p.closTracks)

\* Variants: the effect of [tracks] loads nothing; it loads with autoplay.
initialLoadSkipped(p, tracks) == p

initialLoadAutoplay(p, tracks) ==
  IF Len(tracks) > 0 THEN loadTrack(p, tracks, 0, TRUE) ELSE p

\* The effect of [tracks]: load the first track, without autoplay.
initialLoad(p, tracks) ==
  IF Len(tracks) > 0 THEN loadTrack(p, tracks, 0, FALSE) ELSE p

\* The listeners of the audio element are those of the last render in which
\* isScrubbing, currentIndex or totalTracks changed: handleEnded reads the
\* tracks of that render.
refresh(p, before, tracks, tracksBefore) ==
  IF p.currentIndex # before.currentIndex \/ Len(tracks) # Len(tracksBefore)
    THEN [p EXCEPT !.closTracks = tracks]
    ELSE p

\* Bookkeeping of the model, not state of the program: userPlay, whether the
\* user has asked for playback since the page was built, and adv, the
\* auto-advance the last 'ended' started and no command has overtaken.
NoAdv == [on |-> FALSE, i |-> 0, n |-> 0]
Command(p) == [p EXCEPT !.userPlay = TRUE, !.adv = NoAdv]

BlankPlayer ==
  [src |-> NoTrack, paused |-> TRUE, pos |-> 0, meta |-> FALSE, pend |-> FALSE,
   res |-> FALSE, err |-> FALSE, evq |-> <<>>, currentIndex |-> 0, isPlaying |-> FALSE, duration |-> 0,
   currentTime |-> 0, closTracks |-> <<>>, userPlay |-> FALSE, adv |-> NoAdv]

\* After the first commit: the listeners are installed and the effect of
\* [tracks] has run.
MountPlayer(tracks) == initialLoad([BlankPlayer EXCEPT !.closTracks = tracks], tracks)

PlayerRoom == Len(pl.evq) < MaxEvq

\* The album prop changes.
Supply(tracks) ==
  /\ Quiet
  /\ LET p0 == refresh([pl EXCEPT !.adv = NoAdv], pl, tracks, album) IN
     pl' = refresh(initialLoad(p0, tracks), p0, tracks, tracks)
  /\ album' = tracks
  /\ last' = [op |-> "supply", n |-> Len(tracks), before |-> Len(album),
              i |-> pl.currentIndex]
  /\ UNCHANGED <<unitVars, gt, drag, clickDue, seekCount>>

\* A click on a track of the list.
SelectTrack(index) ==
  /\ Quiet
  /\ index \in 0 .. (totalTracks - 1)
  /\ pl' = refresh(loadTrack(Command(pl), album, index, TRUE),
                   pl, album, album)
  /\ last' = [op |-> "select", i |-> index, n |-> totalTracks]
  /\ UNCHANGED <<unitVars, album, gt, drag, clickDue, seekCount>>

PlayerToggle ==
  /\ Quiet
  /\ PlayerRoom
  /\ pl' = playerTogglePlay(Command(pl))
  /\ last' = [op |-> "playerToggle", started |-> pl.paused]
  /\ UNCHANGED <<unitVars, album, gt, drag, clickDue, seekCount>>

PlayNext ==
  /\ Quiet
  /\ pl' = refresh(playNext(Command(pl), album), pl, album, album)
  /\ last' = [op |-> "playNext", i |-> pl.currentIndex, n |-> totalTracks,
              pre |-> IF totalTracks = 0 THEN Command(pl) ELSE BlankPlayer]
  /\ UNCHANGED <<unitVars, album, gt, drag, clickDue, seekCount>>

PlayPrev ==
  /\ Quiet
  /\ pl' = refresh(playPrev(Command(pl), album), pl, album, album)
  /\ last' = [op |-> "playPrev", i |-> pl.currentIndex, n |-> totalTracks,
              pre |-> IF totalTracks = 0 THEN Command(pl) ELSE BlankPlayer]
  /\ UNCHANGED <<unitVars, album, gt, drag, clickDue, seekCount>>

PlayerDeliverEvent ==
  /\ Quiet
  /\ pl.evq # <<>>
  /\ pl' = [pl EXCEPT !.evq = Tail(@), !.isPlaying = (Head(pl.evq) = "play")]
  /\ last' = [op |-> "playerEvent", ev |-> Head(pl.evq)]
  /\ UNCHANGED <<unitVars, album, gt, drag, clickDue, seekCount>>

PlayerLoadedMetadata ==
  /\ Quiet
  /\ pl.src # NoTrack
  /\ ~pl.meta /\ ~pl.err
  /\ pl' = handleLoaded([pl EXCEPT !.meta = TRUE])
  /\ last' = [op |-> "playerLoaded"]
  /\ UNCHANGED <<unitVars, album, gt, drag, clickDue, seekCount>>

\* The source of the bound track cannot be loaded: the element records the
\* error and rejects the pending play promise; paused is left as it is.  The
\* catch of the Player logs the rejection, and 'error' has no listener.
LoadFailed ==
  /\ Quiet
  /\ pl.src # NoTrack
  /\ ~pl.meta /\ ~pl.err
  /\ pl' = [pl EXCEPT !.err = TRUE, !.pend = FALSE]
  /\ last' = [op |-> "loadFailed", rejected |-> pl.pend]
  /\ UNCHANGED <<unitVars, album, gt, drag, clickDue, seekCount>>

\* The pipeline has started playing: the element queues the task that will
\* resolve the play promise.
PlaybackStarted ==
  /\ Quiet
  /\ pl.pend /\ ~pl.res
  /\ pl.meta /\ ~pl.paused
  /\ pl' = [pl EXCEPT !.res = TRUE]
  /\ last' = [op |-> "playbackStarted"]
  /\ UNCHANGED <<unitVars, album, gt, drag, clickDue, seekCount>>

\* The pipeline has started: the play promise resolves, after the events
\* queued before it.
PlayConfirmed ==
  /\ Quiet
  /\ pl.pend /\ pl.meta /\ ~pl.paused
  /\ pl.evq = <<>>
  /\ pl' = [pl EXCEPT !.pend = FALSE, !.res = FALSE, !.isPlaying = TRUE,
                      !.adv = NoAdv]
  /\ last' = [op |-> "playConfirmed", adv |-> pl.adv]
  /\ UNCHANGED <<unitVars, album, gt, drag, clickDue, seekCount>>

PlayerAudible == ~pl.paused /\ pl.meta /\ ~pl.pend

PlayerTimeUpdate(adv) ==
  /\ Quiet
  /\ pl.meta
  /\ adv = 1 => PlayerAudible /\ pl.pos < TrackDur(pl.src)
  /\ pl' = playerHandleTimeUpdate([pl EXCEPT !.pos = @ + adv])
  /\ last' = [op |-> "playerTimeupdate"]
  /\ UNCHANGED <<unitVars, album, gt, drag, clickDue, seekCount>>

PlayerEnded ==
  /\ Quiet
  /\ PlayerAudible
  /\ pl.pos = TrackDur(pl.src)
  /\ pl.evq = <<>>
  /\ LET p1 == [playerHandleTimeUpdate(pl) EXCEPT !.paused = TRUE, !.isPlaying = FALSE]
     IN pl' = refresh([playerHandleEnded(p1) EXCEPT
                         !.adv = [on |-> TRUE, i |-> pl.currentIndex, n |-> totalTracks]],
                      pl, album, album)
  /\ last' = [op |-> "playerEnded", i |-> pl.currentIndex, n |-> totalTracks]
  /\ UNCHANGED <<unitVars, album, gt, drag, clickDue, seekCount>>

\* ------------------------------------------------------------ GlobalTransport
GT == "GT"

\* handleProgressClick of GlobalTransport, with the duration prop of the
\* render the handler belongs to.
gtHandleProgressClick(p, duration, x) ==
  IF duration <= 0 THEN p
  ELSE playerSeekToRatio(p, Clamp01(Frac(x - Rect.left, Rect.width)))

gtSeeks(p, duration) == IF duration <= 0 THEN 0 ELSE playerSeeks(p)

GTMouseDown(x) ==
  /\ Quiet
  /\ drag = None
  /\ gt' = [isScrubbing |-> TRUE, duration |-> pl.duration]
  /\ pl' = gtHandleProgressClick([pl EXCEPT !.adv = NoAdv], pl.duration, x)
  /\ drag' = GT
  /\ seekCount' = gtSeeks(pl, pl.duration)
  /\ last' = [op |-> "gtMousedown", prePos |-> pl.pos,
              seeked |-> gtSeeks(pl, pl.duration) = 1,
              pre |-> IF gtSeeks(pl, pl.duration) = 0 THEN pl ELSE BlankPlayer,
              ratio |-> Frac(x - Rect.left, Rect.width)]
  /\ UNCHANGED <<unitVars, album, clickDue>>

GTMouseMove(x) ==
  /\ Quiet
  /\ drag = GT
  /\ seekCount < MaxSeeks
  /\ pl' = gtHandleProgressClick([pl EXCEPT !.adv = NoAdv], gt.duration, x)
  /\ seekCount' = seekCount + gtSeeks(pl, gt.duration)
  /\ last' = [op |-> "gtMousemove", prePos |-> pl.pos,
              seeked |-> gtSeeks(pl, gt.duration) = 1,
              pre |-> IF gtSeeks(pl, gt.duration) = 0 THEN pl ELSE BlankPlayer,
              ratio |-> Frac(x - Rect.left, Rect.width)]
  /\ UNCHANGED <<unitVars, album, gt, drag, clickDue>>

GTMouseUp(x, onBar) ==
  /\ Quiet
  /\ drag = GT
  /\ onBar => x \in BarXs
  /\ gt' = [gt EXCEPT !.isScrubbing = FALSE]
  /\ pl' = gtHandleProgressClick([pl EXCEPT !.adv = NoAdv], gt.duration, x)
  /\ drag' = None
  /\ clickDue' = IF onBar THEN [u |-> GT, x |-> x] ELSE NoClick
  /\ seekCount' = seekCount + gtSeeks(pl, gt.duration)
  /\ last' = [op |-> "gtMouseup", prePos |-> pl.pos,
              seeked |-> gtSeeks(pl, gt.duration) = 1,
              pre |-> IF gtSeeks(pl, gt.duration) = 0 THEN pl ELSE BlankPlayer,
              ratio |-> Frac(x - Rect.left, Rect.width)]
  /\ UNCHANGED <<unitVars, album>>

GTClick ==
  /\ clickDue # NoClick
  /\ clickDue.u = GT
  /\ pl' = gtHandleProgressClick([pl EXCEPT !.adv = NoAdv], pl.duration, clickDue.x)
  /\ seekCount' = seekCount + gtSeeks(pl, pl.duration)
  /\ clickDue' = NoClick
  /\ last' = [op |-> "gtClick", prePos |-> pl.pos,
              seeked |-> gtSeeks(pl, pl.duration) = 1,
              pre |-> IF gtSeeks(pl, pl.duration) = 0 THEN pl ELSE BlankPlayer,
              ratio |-> Frac(clickDue.x - Rect.left, Rect.width)]
  /\ UNCHANGED <<unitVars, album, gt, drag>>

Init ==
  /\ props \in {p \in [Units -> [url : Urls, id : {NoId}]] : p["A"].url = "song1"}
  /\ tp = [u \in Units |-> mountUnit(InitUnit, playerId(u))]
  /\ album \in Playlists
  /\ pl = MountPlayer(album)
  /\ gt = [isScrubbing |-> FALSE, duration |-> 0]
  /\ drag = None
  /\ clickDue = NoClick
  /\ seekCount = 0
  /\ last = [op |-> "init"]

\* Playback control of one unit: the button and the media events.
PlayStep(u) ==
  \/ TogglePlay(u)
  \/ DeliverEvent(u)
  \/ LoadedMetadata(u)

\* Playback progress of one unit.
TimeStep(u) ==
  \/ \E adv \in {0, 1} : TimeUpdate(u, adv)
  \/ Ended(u)

\* The pointer on the progress bar of one unit.
PointerStep(u) ==
  \/ \E x \in BarXs : MouseDown(u, x)
  \/ \E x \in ClientXs : MouseMove(u, x)
  \/ \E x \in ClientXs, onBar \in BOOLEAN : MouseUp(u, x, onBar)
  \/ Click(u)

UnitNext == \E u \in Units : PlayStep(u) \/ TimeStep(u) \/ PointerStep(u)

\* Two units that start, stop and end; nobody touches a progress bar.
MutexNext == \E u \in Units : PlayStep(u) \/ TimeStep(u)

\* Unit A in full, next to a unit B that only starts and stops.
ScrubNext == PlayStep("A") \/ TimeStep("A") \/ PointerStep("A") \/ PlayStep("B")

\* The playlist, the transport buttons and the media events of the Player.
ControlStep ==
  \/ \E tracks \in Playlists : Supply(tracks)
  \/ \E i \in 0 .. (MaxTracks - 1) : SelectTrack(i)
  \/ PlayerToggle
  \/ PlayNext
  \/ PlayPrev
  \/ PlayerDeliverEvent
  \/ PlayerLoadedMetadata
  \/ PlayConfirmed
  \/ \E adv \in {0, 1} : PlayerTimeUpdate(adv)
  \/ PlayerEnded

\* The pointer on the bar of GlobalTransport.
TransportStep ==
  \/ \E x \in BarXs : GTMouseDown(x)
  \/ \E x \in ClientXs : GTMouseMove(x)
  \/ \E x \in ClientXs, onBar \in BOOLEAN : GTMouseUp(x, onBar)
  \/ GTClick

PlayerNext == ControlStep \/ TransportStep

\* A playlist that is not replaced: the transport buttons, the media events
\* and the pointer on the bar.
\* One standalone unit and the Player on one page, starting and stopping.
PageNext ==
  \/ PlayStep("A")
  \/ \E i \in 0 .. (MaxTracks - 1) : SelectTrack(i)
  \/ PlayerToggle
  \/ PlayerDeliverEvent
  \/ PlayerLoadedMetadata
  \/ PlayConfirmed

\* The pointer on the bars of unit A and of GlobalTransport, with nothing
\* playing.
BarsNext ==
  \/ PointerStep("A")
  \/ LoadedMetadata("A")
  \/ TransportStep
  \/ PlayerLoadedMetadata
  \/ PlayNext

SeekNext ==
  \/ TransportStep
  \/ PlayerToggle
  \/ PlayNext
  \/ PlayerDeliverEvent
  \/ PlayerLoadedMetadata
  \/ PlayConfirmed
  \/ \E adv \in {0, 1} : PlayerTimeUpdate(adv)
  \/ PlayerEnded

\* A page of standalone units only, and a page with only a Player.
UnitInit == Init /\ album = <<>>
PlayerInit == Init /\ props["B"].url = "song2"

SpecMutex == UnitInit /\ [][MutexNext]_vars
SpecScrub == UnitInit /\ [][ScrubNext]_vars
SpecPage == PlayerInit /\ [][PageNext]_vars
SpecBars == PlayerInit /\ [][BarsNext]_vars
SpecControl == PlayerInit /\ [][ControlStep]_vars
SpecSeek == PlayerInit /\ [][SeekNext]_vars

\* Units that come and go and get other urls while they start and stop.
MountNext ==
  \E u \in Units :
    \/ PlayStep(u)
    \/ Unmount(u)
    \/ Mount(u)
    \/ \E url \in Urls : Rebind(u, url)
SpecMount == UnitInit /\ [][MountNext]_vars

\* A finger on the progress bar of one unit.
TouchStep(u) ==
  \/ \E x \in BarXs : TouchStart(u, x)
  \/ \E x \in ClientXs, hasTouch \in BOOLEAN : TouchMove(u, x, hasTouch)
  \/ \E x \in ClientXs, hasTouch \in BOOLEAN : TouchEnd(u, x, hasTouch)

\* Unit A played and scrubbed by touch.
TouchNext == PlayStep("A") \/ TimeStep("A") \/ TouchStep("A")
SpecTouch == UnitInit /\ [][TouchNext]_vars

\* Unit A in full, whose url can change.
DisplayNext ==
  \/ PlayStep("A")
  \/ TimeStep("A")
  \/ PointerStep("A")
  \/ \E url \in Urls : Rebind("A", url)
SpecDisplay == UnitInit /\ [][DisplayNext]_vars

\* Unit A, which can be removed while its bar is being dragged.
TeardownNext ==
  \/ PlayStep("A")
  \/ TimeStep("A")
  \/ PointerStep("A")
  \/ Unmount("A")
  \/ Mount("A")
  \/ StrayMouseUp
SpecTeardown == UnitInit /\ [][TeardownNext]_vars

\* The Player with sources that can fail to load.
RejectNext == ControlStep \/ LoadFailed
SpecReject == PlayerInit /\ [][RejectNext]_vars

\* The same, with the start of the pipeline and the resolution of the play
\* promise as two tasks that a command can come between.
AgreeNext == RejectNext \/ PlaybackStarted
SpecAgree == PlayerInit /\ [][AgreeNext]_vars

\* Two standalone units whose play requests and publications are counted,
\* each for its first MaxPlays starts.
CountInit ==
  /\ props \in {p \in [Units -> [url : Urls, id : {NoId}]] : p["A"].url = "song1"}
  /\ tp = [u \in Units |-> mountUnit([InitUnit EXCEPT !.counting = TRUE], playerId(u))]
  /\ album = <<>>
  /\ pl = MountPlayer(album)
  /\ gt = [isScrubbing |-> FALSE, duration |-> 0]
  /\ drag = None
  /\ clickDue = NoClick
  /\ seekCount = 0
  /\ last = [op |-> "init"]

CountNext ==
  \E u \in Units :
    \/ (tp[u].paused => tp[u].plays < MaxPlays) /\ TogglePlay(u)
    \/ DeliverEvent(u)
    \/ LoadedMetadata(u)

SpecCount == CountInit /\ [][CountNext]_vars

\* The whole page.
Next ==
  \/ UnitNext
  \/ PlayerNext
  \/ MountNext
  \/ StrayMouseUp
  \/ \E u \in Units : TouchStep(u)
  \/ LoadFailed
  \/ PlaybackStarted

Spec == Init /\ [][Next]_vars

\* ------------------------------------------------------------ claims

\* clamp(r, 0, 1), written out for the statements below
ClampSpec(r) == IF r[1] < 0 THEN Zero ELSE IF r[1] > r[2] THEN One ELSE r

\* C1 (SpecMutex): when a unit has started playback from its button, or its
\* 'play' event has made it Playing, the pipeline of every other unit with a
\* different playerId is paused at the end of that same event turn, so before
\* any later action on that unit; the unit's own pipeline is not paused by
\* the event it published.
C1_MutualExclusion ==
  /\ (last.op = "togglePlay" /\ last.started) \/ last.op = "evPlay" =>
       \A v \in Units \ {last.u} :
         playerId(v) # playerId(last.u) => tp[v].paused
  /\ last.op = "evPlay" =>
       /\ tp[last.u].isPlaying
       /\ tp[last.u].paused = last.prePaused
  /\ last.op = "togglePlay" /\ last.started => ~tp[last.u].paused

\* A has just started from its button while B was Playing: B's pipeline is
\* paused, A's is not.
C1_Witness ==
  /\ last.op = "togglePlay" /\ last.started
  /\ last.paused # {}
  /\ ~tp[last.u].paused
  /\ \A v \in last.paused : tp[v].isPlaying /\ tp[v].paused

\* C2 (SpecPage): at the end of every event turn at most one playback unit of
\* the page, standalone or Player, has a pipeline that is not paused.
\* Counted here are the pipelines that are not paused and have their media.
C2_SingleAudibleUnit ==
  Cardinality({u \in Units : Audible(tp[u])})
    + (IF ~pl.paused /\ pl.meta THEN 1 ELSE 0) <= 1

\* C3 (SpecControl): with N >= 1 tracks and active index i, playNext leaves
\* the active index (i + 1) mod N and playPrev leaves it (i - 1 + N) mod N;
\* with one track both leave it at i.
C3_NextPrevWrap ==
  /\ last.op = "playNext" /\ last.n >= 1 =>
       pl.currentIndex = (last.i + 1) % last.n
  /\ last.op = "playPrev" /\ last.n >= 1 =>
       pl.currentIndex = (last.i - 1 + last.n) % last.n
  /\ last.op \in {"playNext", "playPrev"} /\ last.n = 1 =>
       pl.currentIndex = last.i

\* playPrev has wrapped from the first track to the last one.
C3_Witness ==
  /\ last.op = "playPrev"
  /\ last.n = MaxTracks
  /\ last.i = 0
  /\ pl.currentIndex = MaxTracks - 1

\* C4 (SpecControl): whenever the playlist is not empty the active index is
\* one of its indices, so exactly one track is active.
C4_ActiveIndexInRange ==
  totalTracks > 0 =>
    /\ pl.currentIndex \in 0 .. (totalTracks - 1)
    /\ Cardinality({i \in 0 .. (totalTracks - 1) : i = pl.currentIndex}) = 1

\* A shorter playlist has replaced one whose active index it does not have.
C4_Witness ==
  /\ last.op = "supply"
  /\ last.n > 0
  /\ last.i >= last.n
  /\ pl.currentIndex = 0

\* C5 (SpecControl): when the play request of an auto-advance from track i of
\* N is confirmed, with no command in between, the Player is playing track
\* (i + 1) mod N of the playlist at position 0 with that track's duration.
C5_AutoAdvance ==
  last.op = "playConfirmed" /\ last.adv.on /\ last.adv.n >= 1 =>
    LET j == (last.adv.i + 1) % last.adv.n IN
    /\ pl.isPlaying /\ ~pl.paused
    /\ pl.currentIndex = j
    /\ pl.src = album[j + 1]
    /\ pl.pos = 0 /\ pl.currentTime = 0
    /\ pl.duration = TrackDur(album[j + 1])

\* C6 (SpecControl): until the user asks for playback (togglePlay, playNext,
\* playPrev or a track of the list) the Player is not playing and no play
\* request has been made, and a playlist that is not empty has its first
\* track loaded.
C6_NoAutoplayOnLoad ==
  ~pl.userPlay =>
    /\ pl.paused /\ ~pl.isPlaying /\ ~pl.pend /\ pl.evq = <<>>
    /\ totalTracks > 0 => pl.currentIndex = 0 /\ pl.src = album[1]

\* A playlist has arrived in a Player that had none, its metadata is there,
\* and nothing plays.
C6_Witness ==
  /\ ~pl.userPlay
  /\ totalTracks > 0
  /\ pl.src = album[1] /\ pl.meta /\ pl.paused
  /\ last.op = "playerLoaded"

C8_ScrubInvariant ==
  /\ last.op = "timeupdate" /\ last.scrubbing =>
       /\ tp[last.u].isScrubbing
       /\ currentProgress(tp[last.u]) = last.shown
       /\ tp[last.u].currentTime = tp[last.u].pos
  /\ last.op = "mouseup" /\ last.seeked =>
       /\ ~tp[last.u].isScrubbing
       /\ currentProgress(tp[last.u]) = ClampSpec(last.ratio)

\* The position has advanced during a scrub that shows another ratio.
C8_Witness ==
  /\ last.op = "timeupdate" /\ last.scrubbing /\ last.adv = 1
  /\ currentProgress(tp[last.u]) # Frac(tp[last.u].pos, UnitDur)
  /\ tp[last.u].currentTime = tp[last.u].pos

\* C9 (SpecScrub): a press and each move show their ratio and seek nothing;
\* the release seeks once, to its ratio; the click that follows a release
\* over the bar seeks nothing more: one seek for the whole gesture.
C9_OneSeekPerDrag ==
  /\ last.op \in {"mousedown", "mousemove"} =>
       /\ seekCount = 0
       /\ tp[last.u].pos = last.prePos
       /\ currentProgress(tp[last.u]) = ClampSpec(last.ratio)
  /\ last.op = "mouseup" /\ last.seeked =>
       /\ seekCount = 1
       /\ tp[last.u].pos = Times(ClampSpec(last.ratio), UnitDur)
  /\ last.op = "click" => seekCount <= 1

\* C10 (SpecSeek): a press and a move on the bar of GlobalTransport leave the
\* position of the pipeline where it was; only the release seeks.
C10_ProvisionalUntilRelease ==
  last.op \in {"gtMousedown", "gtMousemove"} =>
    /\ pl.pos = last.prePos
    /\ seekCount = 0

\* C11 (SpecCount): a unit publishes 'trackplayer:play' once for each playback
\* start it requests from its pipeline, so a play requested twice before the
\* first 'play' event is delivered leaves one request and one publication.
\* The second click finds audio.paused false and pauses, so one start is
\* requested; but the one request is published in togglePlay and again by
\* the 'play' listener.
C11_OneStartOnePublication ==
  \A u \in Units : tp[u].pubs <= tp[u].plays

\* C12 (SpecControl): navigation to an index that is no track of the playlist
\* changes nothing.  The handlers reach loadTrack with such an index through
\* playNext and playPrev on an empty playlist (the index is NaN): no pipeline
\* request is made and the active index, the bound track, the playing flag,
\* the position and the event queue are as they were before the command.
C12_InvalidNavigationNoOp ==
  (last.op \in {"playNext", "playPrev"} /\ last.n = 0) => pl = last.pre

\* A command on an emptied playlist while the track bound before is playing.
C12_Witness ==
  /\ last.op \in {"playNext", "playPrev"} /\ last.n = 0
  /\ pl.src # NoTrack /\ ~pl.paused /\ pl.isPlaying

\* C13 (SpecBars): a seek asked for while the duration of the pipeline is
\* unknown is ignored.  After a release or a click on the bar of a standalone
\* unit, and after a press, move, release or click on the GlobalTransport bar,
\* the pipeline position, the reported position and the stored progress are
\* what they were before the handler, and the bar shows that progress.
C13_SeekIgnoredWithoutDuration ==
  /\ (last.op \in {"mouseup", "click"} /\ ~tp[last.u].meta) =>
       /\ ~last.seeked
       /\ tp[last.u].pos = last.pre.pos
       /\ tp[last.u].currentTime = last.pre.currentTime
       /\ tp[last.u].progress = last.pre.progress
       /\ currentProgress(tp[last.u]) = last.pre.progress
  /\ (last.op \in {"gtMousedown", "gtMousemove", "gtMouseup", "gtClick"} /\ ~pl.meta) =>
       /\ ~last.seeked
       /\ pl.pos = last.pre.pos
       /\ pl.currentTime = last.pre.currentTime
       /\ progressRatio(pl) = progressRatio(last.pre)

\* A release beyond the start of the bar before the metadata has arrived.
C13_Witness ==
  /\ last.op = "mouseup" /\ ~tp[last.u].meta
  /\ last.ratio[1] > 0

\* C14 (SpecReject): when the pipeline has rejected a play request and the
\* media events queued before the rejection have been handled, the playing
\* flag of the Player is false.
C14_RejectedNotPlaying ==
  (last.op = "loadFailed" /\ last.rejected /\ pl.evq = <<>>) => ~pl.isPlaying

\* C15 (SpecTeardown): the window 'mousemove' and 'mouseup' listeners of a
\* press belong to a mounted unit: none is left on window once the unit has
\* been removed.
C15_NoListenerAfterTeardown == drag # Orphan

\* C16 (SpecMount): a unit holds exactly one 'trackplayer:play' subscription
\* while it is mounted, made with its current playerId, also after its url
\* has changed, and none once it is unmounted; so an event published later
\* runs no listener of a removed unit.
C16_OneSubscriptionWhileMounted ==
  \A u \in Units :
    tp[u].subs = IF tp[u].mounted THEN <<playerId(u)>> ELSE <<>>

\* A unit starts playback and publishes while the other one is unmounted.
C16_Witness ==
  /\ last.op = "togglePlay" /\ last.started
  /\ \E v \in Units \ {last.u} : ~tp[v].mounted

\* C17 (SpecDisplay): in every state the ratio a unit displays is the drag
\* ratio while it is scrubbing, and otherwise its reported position over its
\* duration, clamped to [0, 1], or 0 while the duration is 0; so it lies in
\* [0, 1].
C17_DisplayedProgress ==
  \A u \in Units :
    LET t == tp[u] IN
    /\ currentProgress(t) =
         IF t.isScrubbing THEN t.scrubProgress
         ELSE IF t.duration = 0 THEN Zero
         ELSE ClampSpec(Frac(t.currentTime, t.duration))
    /\ FLe(Zero, currentProgress(t)) /\ FLe(currentProgress(t), One)

\* C18 (SpecControl): after the Player has received a playlist it is not
\* playing and at position 0; with a non-empty list the active index is 0
\* and the first track is bound, with an empty list no track is bound.
C18_ResupplyResets ==
  last.op = "supply" =>
    /\ ~pl.isPlaying /\ pl.paused
    /\ pl.pos = 0 /\ pl.currentTime = 0
    /\ last.n > 0 => pl.currentIndex = 0 /\ pl.src = album[1]
    /\ last.n = 0 => pl.src = NoTrack

\* C19 (SpecMutex): a unit publishes 'trackplayer:play' only once its
\* pipeline has confirmed the start, which it learns from the 'play' event.
\* So the click that asks for playback, whose 'play' event is still queued
\* when the handler returns, pauses no other unit.
C19_BroadcastAfterConfirmation ==
  (last.op = "togglePlay" /\ last.started) => last.paused = {}

\* C20 (SpecTouch): a 'touchmove' without a touch point that arrives during
\* a scrub ends the scrub as a release at the ratio shown last: the unit is
\* no longer scrubbing and, the duration being known, the pipeline has been
\* sought to that ratio and the progress is that ratio.
C20_TouchMoveWithoutTouchReleases ==
  (last.op = "touchmove" /\ ~last.hasTouch /\ last.scrubbing) =>
    LET t == tp[last.u] IN
    /\ ~t.isScrubbing
    /\ t.meta => /\ t.progress = last.shown
                 /\ t.pos = ClampTime(Times(last.shown, UnitDur), UnitDur)

\* C21 (SpecMutex): when 'ended' has been handled on a standalone unit, the
\* unit is not playing and its position is 0: the position of the pipeline,
\* the reported position and the displayed ratio.
C21_EndedRewinds ==
  last.op = "ended" =>
    LET t == tp[last.u] IN
    /\ t.paused /\ ~t.isPlaying
    /\ t.currentTime = 0 /\ displayTime(t) = 0
    /\ currentProgress(t) = Zero
    /\ t.pos = 0

\* C22 (SpecDisplay): when the url of a standalone unit has changed, its
\* session is new: the pipeline and the reported position are 0, the
\* displayed progress is 0, the unit is not scrubbing, and the duration is 0
\* (a TrackPlayer has no nominal duration) until the new metadata arrives.
C22_SessionResetOnRebind ==
  last.op = "rebind" =>
    LET t == tp[last.u] IN
    /\ t.pos = 0 /\ t.currentTime = 0
    /\ currentProgress(t) = Zero
    /\ ~t.isScrubbing
    /\ t.duration = 0

\* C23 (SpecMutex): two mounted units never share a playerId, also when they
\* were given the same url and no id; so whenever a unit has published
\* 'trackplayer:play', by its button or by its 'play' event, the pipeline
\* of every other mounted unit is paused.
C23_EveryOtherUnitPaused ==
  (last.op = "togglePlay" /\ last.started) \/ last.op = "evPlay" =>
    \A v \in Units \ {last.u} : tp[v].mounted => tp[v].paused

\* C24 (SpecAgree): once every media event of the Player has been handled
\* and no play promise is pending, isPlaying is true exactly when the audio
\* element is not paused.
C24_PlayingFlagAgrees ==
  (pl.evq = <<>> /\ ~pl.pend) => (pl.isPlaying <=> ~pl.paused)

\* C25 (SpecMutex): the unit started last wins.  A 'play' event that reaches
\* a unit after another unit's start has already paused it is late: the
\* 'trackplayer:play' published from it pauses no other unit.
C25_LatePlayEventPausesNobody ==
  (last.op = "evPlay" /\ last.prePaused) => last.paused = {}

====
